---- MODULE Spec2Model ----
(***************************************************************************)
(* Model of the two command-line tools of the repository:                  *)
(*   tools/ckpoint_aggregate_accuracy.py  (the aggregator)                 *)
(*   tools/ckpoint_diff.py                (the differ)                     *)
(* One run of a tool is one behaviour: Init fixes the command line and the *)
(* contents of the CSV files, the actions are the steps of main().         *)
(*                                                                         *)
(* A CSV file is a record [header, records]: the header is the sequence of *)
(* column names, a record is the sequence of cell values of one line.      *)
(* Every record of the files drawn here has as many cells as the header    *)
(* has columns (well-formed CSV), and column names are not repeated.       *)
(* A string that the code inspects character by character (a model name,   *)
(* a regular expression, a commit hash, a description) is a sequence of    *)
(* one-character strings; every other cell value is a TLA+ string.         *)
(***************************************************************************)
EXTENDS Integers, Sequences, FiniteSets, TLC

VARIABLES
    pc,             \* position of main(): "start", ..., "exit"
    stdout,         \* sequence of records written to standard output
    stderr,         \* sequence of records written to standard error
    exit_code,      \* -1 while running, then the process exit status
    error,          \* "none", or the name of the error that ended the run
    argv_regex,     \* aggregator: <<>> or <<model_regex>>        (sys.argv[1])
    argv_files,     \* aggregator: the CSV files named by sys.argv[2:]
    next_file,      \* aggregator: index of the next file to read
    all_rows,       \* aggregator: main's all_rows
    argv_fields,    \* differ: sys.argv[4:]
    argv_given,     \* differ: how many of test_file, file1, file2 are given
    test_file,      \* differ: the CSV file named by sys.argv[1]
    file1,          \* differ: the CSV file named by sys.argv[2]
    file2,          \* differ: the CSV file named by sys.argv[3]
    rows1,          \* differ: main's rows1
    rows2,          \* differ: main's rows2
    test_rows,      \* differ: main's test_rows
    differing_rows, \* differ: result of find_differing_rows
    examined,       \* differ: entry indices whose groups were compared
    written,        \* differ: number of differing rows handled by the output loop
    count           \* differ: main's count

vars == <<pc, stdout, stderr, exit_code, error, argv_regex, argv_files,
          next_file, all_rows, argv_fields, argv_given, test_file, file1,
          file2, rows1, rows2, test_rows, differing_rows, examined, written,
          count>>

aggVars == <<argv_regex, argv_files, next_file, all_rows>>

diffVars == <<argv_fields, argv_given, test_file, file1, file2, rows1, rows2,
              test_rows, differing_rows, examined, written, count>>

----------------------------------------------------------------------------
(* Generic helpers *)

Range(s) == {s[i] : i \in 1..Len(s)}

SeqsUpTo(S, n) == UNION {[1..k -> S] : k \in 0..n}

\* position of column c in a header that contains it
ColumnIndex(header, c) == CHOOSE i \in 1..Len(header) : header[i] = c

\* csv.DictReader: one dict per record, keyed by the header's column names
DictReader(file) ==
    [i \in 1..Len(file.records) |->
        [c \in Range(file.header) |->
            file.records[i][ColumnIndex(file.header, c)]]]

EmptyFile == [header |-> <<>>, records |-> <<>>]

----------------------------------------------------------------------------
(* Bounds of the aggregator's inputs *)

\* largest number of CSV records over all the input files of one run
MaxAggRows == 3

\* the regular expressions drawn: literals, "." (any character) and an
\* unbalanced "(" that re.compile rejects
Regexes == { <<"a">>, <<".">>, <<"(">>, <<"a", "(">> }

ModelNames == { <<"a", "b">>, <<"b", "a">> }

AggEntryIndices == {"1", "2", "3"}

\* the (correct, correct_aligned, correct_stripped) cells drawn for one record
Outcomes == { <<"true", "false", "True">>,
              <<"false", "true", "false">>,
              <<"True", "false", "true">> }

AggHeader ==
    <<"entry_index", "model", "correct", "correct_aligned", "correct_stripped">>

AggRecords ==
    { <<e, m>> \o o : e \in AggEntryIndices, m \in ModelNames, o \in Outcomes }

AggFile(recs) == [header |-> AggHeader, records |-> recs]

\* the files of the command line: one file, or with two records or more
\* two files, the first holding the first half of the records
AggFileList(recs) ==
    IF Len(recs) < 2
    THEN <<AggFile(recs)>>
    ELSE <<AggFile(SubSeq(recs, 1, Len(recs) \div 2)),
           AggFile(SubSeq(recs, Len(recs) \div 2 + 1, Len(recs)))>>

----------------------------------------------------------------------------
(* tools/ckpoint_aggregate_accuracy.py *)

\* re.compile on the patterns drawn: an unbalanced "(" is a re.error
RegexCompiles(regex) == \A i \in 1..Len(regex) : regex[i] # "("

\* model_filter.match(s): the pattern must match at the start of s, and
\* need not reach its end
RegexMatch(regex, s) ==
    /\ Len(regex) <= Len(s)
    /\ \A i \in 1..Len(regex) : regex[i] = "." \/ regex[i] = s[i]

\* read_csv(filename, model_filter): the rows whose model matches, in order
AggReadCsv(file, regex) ==
    SelectSeq(DictReader(file), LAMBDA row : RegexMatch(regex, row["model"]))

\* the dict `entries`: entry_index -> list of the rows carrying it
Entries(rows) ==
    [e \in {rows[i]["entry_index"] : i \in 1..Len(rows)} |->
        SelectSeq(rows, LAMBDA row : row["entry_index"] = e)]

\* mutant: every row with the field "true" counts, not every group
CountCorrect_Rows(entries, field) ==
    Cardinality(UNION {
        {<<e, i>> : i \in {j \in 1..Len(entries[e]) : entries[e][j][field] = "true"}} :
        e \in DOMAIN entries})

\* sum(1 for entry_rows in entries.values() if any(row[field] == "true" ...))
CountCorrect(entries, field) ==
    Cardinality({e \in DOMAIN entries :
        \E i \in 1..Len(entries[e]) : entries[e][i][field] = "true"})

\* A natural number too wide for one machine integer is a sequence of
\* limbs, least significant first: <<a, b, c>> is a + b*W + c*W^2 for the
\* limb weight W.  A binary64 float is [sig, exp]: the number sig * 2^-exp,
\* sig a natural number of at most 53 bits (or 2^53 itself).
LimbWeight == 2 ^ 13

\* a * m + carry, for a small m
RECURSIVE MulSmall(_, _, _)
MulSmall(a, m, carry) ==
    IF a = <<>>
    THEN IF carry = 0 THEN <<>> ELSE <<carry>>
    ELSE <<(a[1] * m + carry) % LimbWeight>> \o
         MulSmall(Tail(a), m, (a[1] * m + carry) \div LimbWeight)

\* quotient and remainder of a by a small m
RECURSIVE DivRem(_, _)
DivRem(a, m) ==
    IF a = <<>>
    THEN [q |-> <<>>, r |-> 0]
    ELSE LET high == DivRem(Tail(a), m)
             cur == high.r * LimbWeight + a[1]
         IN [q |-> <<cur \div m>> \o high.q, r |-> cur % m]

\* a + 1
RECURSIVE Increment(_)
Increment(a) ==
    IF a = <<>> THEN <<1>>
    ELSE IF a[1] + 1 < LimbWeight \/ Len(a) = 1
    THEN <<a[1] + 1>> \o Tail(a)
    ELSE <<0>> \o Increment(Tail(a))

\* the value of a limb sequence that fits a machine integer
RECURSIVE ToInt(_)
ToInt(a) == IF a = <<>> THEN 0 ELSE a[1] + LimbWeight * ToInt(Tail(a))

IsOdd(a) == a # <<>> /\ a[1] % 2 = 1

\* round-half-to-even of (q + r / m), 0 <= r < m
RoundHalfEven(q, r, m) ==
    IF 2 * r > m \/ (2 * r = m /\ IsOdd(q)) THEN Increment(q) ELSE q

\* the least s with n * 2^s >= d, for 0 < n
RECURSIVE LeadingShift(_, _)
LeadingShift(n, d) == IF n >= d THEN 0 ELSE 1 + LeadingShift(2 * n, d)

\* the float n / d of two ints, 0 <= n <= d, 0 < d < 2^18: the quotient
\* rounded to 53 significant bits, ties to even
FloatDiv(n, d) ==
    IF n = 0 THEN [sig |-> <<>>, exp |-> 0]
    ELSE LET s == LeadingShift(n, d)
             quot == DivRem(<<0, 0, 0, 0, n * 2 ^ s>>, d)
         IN [sig |-> RoundHalfEven(quot.q, quot.r, d), exp |-> s + 52]

\* the float x * 100: the product rounded to 53 significant bits, ties to
\* even; the exact product has a 7-bit or an 8-bit part above 2^52
FloatTimes100(x) ==
    IF x.sig = <<>> THEN x
    ELSE LET product == MulSmall(x.sig, 100, 0)
             drop == IF product[5] >= 128 THEN 7 ELSE 6
             kept == DivRem(product, 2 ^ drop)
         IN [sig |-> RoundHalfEven(kept.q, kept.r, 2 ^ drop),
             exp |-> x.exp - drop]

\* format(x, ".6f") of a float 0 <= x <= 100 with x.exp > 0: the exact
\* binary value rounded to six decimals, ties to even, as [whole, micro]:
\* 50.000000 is [whole |-> 50, micro |-> 0]
FormatFixed6(x) ==
    LET scaled == MulSmall(MulSmall(x.sig, 1000, 0), 1000, 0)
        limbs == (x.exp - 1) \div 13
        bits == (x.exp - 1) % 13
        rest == DivRem(SubSeq(scaled, limbs + 1, Len(scaled)), 2 ^ bits)
        sticky == \/ rest.r # 0
                  \/ \E i \in 1..limbs : i <= Len(scaled) /\ scaled[i] # 0
        twice == ToInt(rest.q)
        n == IF twice % 2 = 1 /\ (sticky \/ (twice \div 2) % 2 = 1)
             THEN twice \div 2 + 1 ELSE twice \div 2
    IN IF x.sig = <<>> THEN [whole |-> 0, micro |-> 0]
       ELSE [whole |-> n \div 1000000, micro |-> n % 1000000]

\* correct / total: a float, or Python's ZeroDivisionError on total = 0
Ratio(n, d) ==
    IF d = 0
    THEN [zero_division |-> TRUE, sig |-> <<>>, exp |-> 0]
    ELSE [zero_division |-> FALSE, sig |-> FloatDiv(n, d).sig,
          exp |-> FloatDiv(n, d).exp]

\* mutant: no early return for an empty `entries`
CalculateAggregateStats_NoGuard(rows) ==
    LET entries == Entries(rows)
        total == Cardinality(DOMAIN entries)
    IN <<Ratio(CountCorrect(entries, "correct"), total),
         Ratio(CountCorrect(entries, "correct_aligned"), total),
         Ratio(CountCorrect(entries, "correct_stripped"), total)>>

\* calculate_aggregate_stats(rows)
CalculateAggregateStats(rows) ==
    LET entries == Entries(rows)
        total == Cardinality(DOMAIN entries)
    IN IF total = 0
       THEN <<Ratio(0, 1), Ratio(0, 1), Ratio(0, 1)>>
       ELSE <<Ratio(CountCorrect(entries, "correct"), total),
              Ratio(CountCorrect(entries, "correct_aligned"), total),
              Ratio(CountCorrect(entries, "correct_stripped"), total)>>

\* f"{accuracy*100:.6f}": the float product, then its six-digit decimal
FormatPercent(ratio) == FormatFixed6(FloatTimes100(ratio))

AggArgc == 1 + Len(argv_regex) + Len(argv_files)

TextLine(t) == [kind |-> "text", text |-> t]

CsvLine(cells) == [kind |-> "csv", cells |-> cells]

\* main(): len(sys.argv) < 3
AggUsage ==
    /\ pc = "start"
    /\ AggArgc < 3
    /\ stdout' = Append(stdout, TextLine("Usage"))
    /\ exit_code' = 1
    /\ error' = "usage"
    /\ pc' = "exit"
    /\ UNCHANGED <<stderr, aggVars, diffVars>>

\* main(): re.compile raises re.error
AggInvalidRegex ==
    /\ pc = "start"
    /\ AggArgc >= 3
    /\ ~RegexCompiles(argv_regex[1])
    /\ stderr' = Append(stderr, TextLine("Invalid regex"))
    /\ exit_code' = 1
    /\ error' = "regex"
    /\ pc' = "exit"
    /\ UNCHANGED <<stdout, aggVars, diffVars>>

\* main(): the pattern compiles, the loop over the files begins
AggCompile ==
    /\ pc = "start"
    /\ AggArgc >= 3
    /\ RegexCompiles(argv_regex[1])
    /\ pc' = "read"
    /\ UNCHANGED <<stdout, stderr, exit_code, error, aggVars, diffVars>>

\* main(): one turn of `for filename in sys.argv[2:]`
AggReadFile ==
    /\ pc = "read"
    /\ next_file <= Len(argv_files)
    /\ all_rows' = all_rows \o AggReadCsv(argv_files[next_file], argv_regex[1])
    /\ next_file' = next_file + 1
    /\ UNCHANGED <<pc, stdout, stderr, exit_code, error, argv_regex,
                   argv_files, diffVars>>

\* main(): the statistics, the two CSV lines and the total on stderr
AggReport ==
    /\ pc = "read"
    /\ next_file > Len(argv_files)
    /\ LET stats == CalculateAggregateStats(all_rows)
       IN IF \E k \in 1..3 : stats[k].zero_division
          THEN /\ stderr' = Append(stderr, TextLine("Traceback"))
               /\ exit_code' = 1
               /\ error' = "ZeroDivisionError"
               /\ UNCHANGED stdout
          ELSE /\ stdout' = stdout \o
                    << CsvLine(<<"accuracy", "accuracy_aligned",
                                 "accuracy_stripped">>),
                       CsvLine(<<FormatPercent(stats[1]),
                                 FormatPercent(stats[2]),
                                 FormatPercent(stats[3])>>) >>
               /\ stderr' = Append(stderr,
                                   [kind |-> "total", n |-> Len(all_rows)])
               /\ exit_code' = 0
               /\ UNCHANGED error
    /\ pc' = "exit"
    /\ UNCHANGED <<aggVars, diffVars>>

DiffIdle ==
    /\ argv_fields = <<>>
    /\ argv_given = 0
    /\ test_file = EmptyFile
    /\ file1 = EmptyFile
    /\ file2 = EmptyFile
    /\ rows1 = <<>>
    /\ rows2 = <<>>
    /\ test_rows = <<>>
    /\ differing_rows = <<>>
    /\ examined = {}
    /\ written = 0
    /\ count = 0

Started ==
    /\ pc = "start"
    /\ stdout = <<>>
    /\ stderr = <<>>
    /\ exit_code = -1
    /\ error = "none"

\* the command lines of the aggregator: too few arguments, a pattern that
\* does not compile, or a pattern that compiles and one or two files
AggInit ==
    /\ Started
    /\ DiffIdle
    /\ next_file = 1
    /\ all_rows = <<>>
    /\ \/ /\ argv_regex = <<>>
          /\ argv_files = <<>>
       \/ /\ argv_regex \in {<<r>> : r \in Regexes}
          /\ argv_files = <<>>
       \/ /\ argv_regex \in {<<r>> : r \in Regexes}
          /\ ~RegexCompiles(argv_regex[1])
          /\ argv_files \in {<<AggFile(recs)>> : recs \in SeqsUpTo(AggRecords, 1)}
       \/ /\ argv_regex \in {<<r>> : r \in Regexes}
          /\ RegexCompiles(argv_regex[1])
          /\ argv_files \in
                {AggFileList(recs) : recs \in SeqsUpTo(AggRecords, MaxAggRows)}

AggNext ==
    \/ AggUsage
    \/ AggInvalidRegex
    \/ AggCompile
    \/ AggReadFile
    \/ AggReport

SpecAgg == AggInit /\ [][AggNext]_vars

----------------------------------------------------------------------------
(* tools/ckpoint_diff.py *)

\* read_csv(filename)
DiffReadCsv(file) == DictReader(file)

\* grouped_rows[entry_index]: the rows carrying it, in file order; the
\* empty list when there is none
Group(rows, entry_index) ==
    SelectSeq(rows, LAMBDA row : row["entry_index"] = entry_index)

\* set(grouped_rows1.keys()) | set(grouped_rows2.keys())
AllEntryIndices(r1, r2) ==
    {r1[i]["entry_index"] : i \in 1..Len(r1)} \cup
    {r2[i]["entry_index"] : i \in 1..Len(r2)}

\* the first element of the sequence of results that is not `pass`, or
\* `pass` when all of them are: a loop that stops at its first such turn
FirstNot(results, pass) ==
    IF \A i \in 1..Len(results) : results[i] = pass
    THEN pass
    ELSE LET i == CHOOSE i \in 1..Len(results) :
                    /\ results[i] # pass
                    /\ \A j \in 1..(i - 1) : results[j] = pass
         IN results[i]

\* all(first_row[field] == row[field] for field in fields): the fields are
\* taken in order, up to the first that is unequal ("False") or that one
\* of the two rows lacks ("KeyError")
AllFieldsEqual(first_row, row, fields) ==
    FirstNot([k \in 1..Len(fields) |->
                IF fields[k] \notin DOMAIN first_row \/ fields[k] \notin DOMAIN row
                THEN "KeyError"
                ELSE IF first_row[fields[k]] = row[fields[k]]
                     THEN "True" ELSE "False"],
             "True")

\* the inner loop `for row in group[1:]` of the consistency check
GroupAllEqual(group, fields) ==
    FirstNot([j \in 1..(Len(group) - 1) |->
                AllFieldsEqual(group[1], group[j + 1], fields)],
             "True")

\* all_equal after `for group in group1, group2`: group2 is looked at only
\* if group1 is consistent
AllEqual(group1, group2, fields) ==
    FirstNot(<<GroupAllEqual(group1, fields), GroupAllEqual(group2, fields)>>,
             "True")

\* any(row1[field] != "false" and (1 or ...) for field in fields)
AnyNotFalse(row1, fields) ==
    FirstNot([k \in 1..Len(fields) |->
                IF fields[k] \notin DOMAIN row1 THEN "KeyError"
                ELSE IF row1[fields[k]] # "false" THEN "True" ELSE "False"],
             "False")

\* any((1 or ...) and row2[field] != "true" for field in fields)
AnyNotTrue(row2, fields) ==
    FirstNot([k \in 1..Len(fields) |->
                IF fields[k] \notin DOMAIN row2 THEN "KeyError"
                ELSE IF row2[fields[k]] # "true" THEN "True" ELSE "False"],
             "False")

\* mutant: the turn clears a flag when the two rows agree on some field
ComparePair_AnyAgreement(row1, row2, fields) ==
    LET agree == FirstNot([k \in 1..Len(fields) |->
                    IF fields[k] \notin DOMAIN row1 \/ fields[k] \notin DOMAIN row2
                    THEN "KeyError"
                    ELSE IF row1[fields[k]] = row2[fields[k]]
                         THEN "True" ELSE "False"],
                 "False")
    IN IF agree = "KeyError" THEN "KeyError"
       ELSE IF agree = "True" THEN "cleared"
       ELSE "next"

\* one turn of `for row1, row2 in zip(group1, group2)`: "next" when neither
\* flag is cleared, "cleared" when the turn clears one and breaks
ComparePair(row1, row2, fields) ==
    LET any1 == AnyNotFalse(row1, fields)
    IN IF any1 = "KeyError" THEN "KeyError"
       ELSE IF any1 = "True" THEN "cleared"
       ELSE LET any2 == AnyNotTrue(row2, fields)
            IN IF any2 = "KeyError" THEN "KeyError"
               ELSE IF any2 = "True" THEN "cleared"
               ELSE "next"

\* the consistency check and the loop over zip(group1, group2) for two
\* groups with a first row: "skip" (nothing recorded), "record" (the last
\* row2 is appended) or "KeyError"
CompareGroups(group1, group2, fields) ==
    LET all_equal == AllEqual(group1, group2, fields)
        shorter == IF Len(group1) < Len(group2) THEN Len(group1) ELSE Len(group2)
    IN IF all_equal = "KeyError" THEN "KeyError"
       ELSE IF all_equal = "False" THEN "skip"
       ELSE LET pairs == FirstNot(
                    [i \in 1..shorter |->
                        ComparePair(group1[i], group2[i], fields)],
                    "next")
            IN IF pairs = "KeyError" THEN "KeyError"
               ELSE IF pairs = "cleared" THEN "skip"
               ELSE "record"

\* mutant: only an entry that one of the files lacks is passed over, groups
\* of different sizes are compared
CompareEntry_NoLengthCheck(group1, group2, fields) ==
    IF group1 = <<>> \/ group2 = <<>> THEN "skip"
    ELSE CompareGroups(group1, group2, fields)

\* mutant: only the first rows of the two groups are looked at
CompareEntry_FirstPairOnly(group1, group2, fields) ==
    IF Len(group1) # Len(group2) THEN "skip"
    ELSE LET pair == ComparePair(group1[1], group2[1], fields)
         IN IF pair = "KeyError" THEN "KeyError"
            ELSE IF pair = "cleared" THEN "skip"
            ELSE "record"

\* the body of `for entry_index in all_entry_indices`; an entry index of
\* the union has a row in one of the groups, so two groups of the same
\* size both have a first row
CompareEntry(group1, group2, fields) ==
    IF Len(group1) # Len(group2) THEN "skip"
    ELSE CompareGroups(group1, group2, fields)

\* find_differing_rows(rows1, rows2, fields), the entry indices taken in
\* the given order (the iteration order of a set of strings): the rows
\* recorded and the indices looked at, until an uncaught KeyError if any
RECURSIVE FindDifferingRows(_, _, _, _)
FindDifferingRows(r1, r2, fields, order) ==
    IF order = <<>>
    THEN [rows |-> <<>>, seen |-> {}, error |-> "none"]
    ELSE LET before == FindDifferingRows(r1, r2, fields,
                                         SubSeq(order, 1, Len(order) - 1))
             e == order[Len(order)]
             group2 == Group(r2, e)
             result == CompareEntry(Group(r1, e), group2, fields)
         IN IF before.error # "none" THEN before
            ELSE [rows |-> IF result = "record"
                           THEN Append(before.rows, group2[Len(group2)])
                           ELSE before.rows,
                  seen |-> before.seen \cup {e},
                  error |-> IF result = "KeyError" THEN "KeyError" ELSE "none"]

\* the orders in which a set can be iterated
Orders(S) ==
    {o \in [1..Cardinality(S) -> S] :
        \A i, j \in 1..Cardinality(S) : o[i] = o[j] => i = j}

\* mutant: the keys of the rows of file1 alone
AllFields_File1Only(r1, r2) == UNION {DOMAIN r1[i] : i \in 1..Len(r1)}

\* all_fields: the union of the keys of the rows of both files
AllFields(r1, r2) == UNION {DOMAIN (r1 \o r2)[i] : i \in 1..Len(r1 \o r2)}

\* missing_fields = set(fields) - all_fields
MissingFields(fields, r1, r2) == Range(fields) \ AllFields(r1, r2)

\* re.search(re.escape(commit), desc): commit occurs in desc as it stands
Search(commit, desc) ==
    \E start \in 0..(Len(desc) - Len(commit)) :
        \A i \in 1..Len(commit) : desc[start + i] = commit[i]

\* the reference row that the inner `for test_row in test_rows` stops at,
\* as its index, or 0 when the loop runs to its `else`
FirstMatch(commit, refs) ==
    IF \E i \in 1..Len(refs) : Search(commit, refs[i]["Description"])
    THEN CHOOSE i \in 1..Len(refs) :
            /\ Search(commit, refs[i]["Description"])
            /\ \A j \in 1..(i - 1) : ~Search(commit, refs[j]["Description"])
    ELSE 0

\* csv.DictWriter.writerow(rowdict): the cells in the order of fieldnames,
\* "" for a column the dict lacks; a key outside fieldnames is a ValueError
WriteRow(fieldnames, rowdict) ==
    IF DOMAIN rowdict \subseteq Range(fieldnames)
    THEN [kind |-> "csv",
          cells |-> [i \in 1..Len(fieldnames) |->
                        IF fieldnames[i] \in DOMAIN rowdict
                        THEN rowdict[fieldnames[i]] ELSE ""]]
    ELSE [kind |-> "ValueError", cells |-> <<>>]

DiffArgc == 1 + argv_given + Len(argv_fields)

\* an uncaught exception: the traceback on stderr, exit status 1
Crash(name) ==
    /\ stderr' = Append(stderr, TextLine("Traceback"))
    /\ exit_code' = 1
    /\ error' = name
    /\ pc' = "exit"

\* main(): len(sys.argv) < 5
DiffUsage ==
    /\ pc = "start"
    /\ DiffArgc < 5
    /\ stdout' = Append(stdout, TextLine("Usage"))
    /\ exit_code' = 1
    /\ error' = "usage"
    /\ pc' = "exit"
    /\ UNCHANGED <<stderr, aggVars, diffVars>>

\* main(): the three files are read, a requested field is in no row
DiffMissingFields ==
    /\ pc = "start"
    /\ DiffArgc >= 5
    /\ rows1' = DiffReadCsv(file1)
    /\ rows2' = DiffReadCsv(file2)
    /\ test_rows' = DiffReadCsv(test_file)
    /\ MissingFields(argv_fields, rows1', rows2') # {}
    /\ stdout' = Append(stdout, TextLine("Error: Fields not found"))
    /\ exit_code' = 1
    /\ error' = "missing"
    /\ pc' = "exit"
    /\ UNCHANGED <<stderr, aggVars, argv_fields, argv_given, test_file, file1,
                   file2, differing_rows, examined, written, count>>

\* main(): the three files are read, every requested field is in some row
DiffLoad ==
    /\ pc = "start"
    /\ DiffArgc >= 5
    /\ rows1' = DiffReadCsv(file1)
    /\ rows2' = DiffReadCsv(file2)
    /\ test_rows' = DiffReadCsv(test_file)
    /\ MissingFields(argv_fields, rows1', rows2') = {}
    /\ pc' = "find"
    /\ UNCHANGED <<stdout, stderr, exit_code, error, aggVars, argv_fields,
                   argv_given, test_file, file1, file2, differing_rows,
                   examined, written, count>>

\* main(): differing_rows = find_differing_rows(rows1, rows2, fields)
DiffFind ==
    /\ pc = "find"
    /\ \E order \in Orders(AllEntryIndices(rows1, rows2)) :
          LET found == FindDifferingRows(rows1, rows2, argv_fields, order)
          IN /\ examined' = found.seen
             /\ IF found.error = "none"
                THEN /\ differing_rows' = found.rows
                     /\ pc' = "output"
                     /\ UNCHANGED <<stderr, exit_code, error>>
                ELSE /\ Crash(found.error)
                     /\ UNCHANGED differing_rows
    /\ UNCHANGED <<stdout, aggVars, argv_fields, argv_given, test_file, file1,
                   file2, rows1, rows2, test_rows, written, count>>

\* main(): `if differing_rows:` with rows to write: the header of the first
\* reference row, an IndexError when the reference file has no row
DiffWriteHeader ==
    /\ pc = "output"
    /\ differing_rows # <<>>
    /\ IF test_rows = <<>>
       THEN /\ Crash("IndexError")
            /\ UNCHANGED stdout
       ELSE /\ stdout' = Append(stdout, CsvLine(test_file.header))
            /\ pc' = "rows"
            /\ UNCHANGED <<stderr, exit_code, error>>
    /\ UNCHANGED <<aggVars, diffVars>>

\* main(): one turn of `for row in differing_rows`
DiffWriteRow ==
    /\ pc = "rows"
    /\ written < Len(differing_rows)
    /\ LET row == differing_rows[written + 1]
           match == FirstMatch(row["patch_commit_hash"], test_rows)
           line == WriteRow(test_file.header,
                            IF match # 0 THEN test_rows[match] ELSE row)
       IN IF line.kind = "ValueError"
          THEN /\ Crash("ValueError")
               /\ UNCHANGED <<stdout, written, count>>
          ELSE /\ stdout' = Append(stdout, line)
               /\ count' = IF match # 0 THEN count + 1 ELSE count
               /\ written' = written + 1
               /\ UNCHANGED <<pc, stderr, exit_code, error>>
    /\ UNCHANGED <<aggVars, argv_fields, argv_given, test_file, file1, file2,
                   rows1, rows2, test_rows, differing_rows, examined>>

\* main(): print(count, file=sys.stderr) and the normal end
DiffFinish ==
    /\ \/ pc = "output" /\ differing_rows = <<>>
       \/ pc = "rows" /\ written = Len(differing_rows)
    /\ stderr' = Append(stderr, [kind |-> "count", n |-> count])
    /\ exit_code' = 0
    /\ pc' = "exit"
    /\ UNCHANGED <<stdout, error, aggVars, diffVars>>

DiffNext ==
    \/ DiffUsage
    \/ DiffMissingFields
    \/ DiffLoad
    \/ DiffFind
    \/ DiffWriteHeader
    \/ DiffWriteRow
    \/ DiffFinish

----------------------------------------------------------------------------
(* Bounds of the differ's inputs.  Every result file drawn has the columns *)
(* entry_index and patch_commit_hash and every reference file the column   *)
(* Description, which main() and find_differing_rows read from every row;  *)
(* the columns named on the command line may be absent from a file.        *)

\* largest number of records of file1 and file2 together, in the runs
\* that vary the columns, the field list and the entries of the records
MaxRows == 3

\* largest number of records of one entry in one file, in the runs that
\* compare two groups of the same size
MaxGroup == 2

\* largest number of records of the reference file, in the runs that
\* vary the reference file
MaxRefRows == 2

EntryIndices == {"1", "2"}

FieldValues == {"true", "false"}

\* the columns a result file has besides entry_index and patch_commit_hash
FieldColumns == { <<"f">>, <<"f", "g">> }

\* the field lists of the command line, for the field columns of the files
FieldLists(columns1, columns2) ==
    IF columns1 = <<"f">> /\ columns2 = <<"f">>
    THEN { <<"f">>, <<"g">>, <<"f", "g">> }
    ELSE IF columns1 = columns2
    THEN { <<"g">>, <<"f", "g">> }
    ELSE { <<"g">>, <<"f", "g">>, <<"g", "f">> }

Hashes == { <<"a">>, <<"a", "b">> }

Descriptions == { <<"b", "a">>, <<"a", "b">>, <<"c">> }

\* the commit hash of the records of one entry, where it is not varied
HashOf(entry_index) == IF entry_index = "1" THEN <<"a">> ELSE <<"a", "b">>

ResultHeader(columns) == <<"entry_index", "patch_commit_hash">> \o columns

\* the records of a result file with the given field columns
ResultRecords(columns) ==
    { <<e, HashOf(e)>> \o v : e \in EntryIndices,
                              v \in [1..Len(columns) -> FieldValues] }

\* the sequences of n records in which the records of entry "1" come first
GroupedSeqs(S, n) ==
    {s \in [1..n -> S] : \A i \in 1..(n - 1) : s[i][1] = "2" => s[i + 1][1] = "2"}

ResultFiles(columns, n) ==
    {[header |-> ResultHeader(columns), records |-> recs] :
        recs \in GroupedSeqs(ResultRecords(columns), n)}

\* the header of a reference file: the Description alone, or with it every
\* column of the result files and one more
RefHeaders ==
    { <<"Description">>,
      <<"Description", "x", "patch_commit_hash", "f", "entry_index">> }

RefTags == <<"r1", "r2", "r3", "r4">>

\* the i-th record of a reference file with the given header and Description
RefRecord(header, i, desc) ==
    [c \in 1..Len(header) |->
        IF header[c] = "Description" THEN desc
        ELSE IF header[c] = "patch_commit_hash" THEN <<"r">>
        ELSE RefTags[i]]

RefFiles(n) ==
    {[header |-> h, records |-> [i \in 1..n |-> RefRecord(h, i, descs[i])]] :
        h \in RefHeaders, descs \in [1..n -> Descriptions]}

\* the reference file of the runs that vary the compared fields: every
\* column, one record, which the hash of entry "2" matches
FixedRefFile ==
    CHOOSE f \in RefFiles(1) :
        Len(f.header) > 1 /\ f.records[1][1] = <<"a", "b">>

AggIdle ==
    /\ argv_regex = <<>>
    /\ argv_files = <<>>
    /\ next_file = 1
    /\ all_rows = <<>>

DiffFresh ==
    /\ rows1 = <<>>
    /\ rows2 = <<>>
    /\ test_rows = <<>>
    /\ differing_rows = <<>>
    /\ examined = {}
    /\ written = 0
    /\ count = 0

\* command lines with fewer than four arguments
InitTooFewArguments ==
    /\ argv_given \in 0..3
    /\ argv_fields = <<>>
    /\ test_file = FixedRefFile
    /\ file1 = EmptyFile
    /\ file2 = EmptyFile

\* runs that vary the field list and the records of file1 and file2
InitCompare ==
    /\ argv_given = 3
    /\ test_file = FixedRefFile
    /\ \E columns1 \in FieldColumns, columns2 \in FieldColumns :
          /\ argv_fields \in FieldLists(columns1, columns2)
          /\ \E n1 \in 0..MaxRows :
                \E n2 \in 0..(MaxRows - n1) :
                    /\ file1 \in ResultFiles(columns1, n1)
                    /\ file2 \in ResultFiles(columns2, n2)

\* runs over one entry with as many records in file1 as in file2
InitGroups ==
    /\ argv_given = 3
    /\ test_file = FixedRefFile
    /\ argv_fields \in { <<"g">>, <<"f", "g">> }
    /\ \E m \in 1..MaxGroup :
          LET files == {f \in ResultFiles(<<"f", "g">>, m) :
                            \A i \in 1..m : f.records[i][1] = "1"}
          IN file1 \in files /\ file2 \in files

\* a result file with one record per entry of `entries`, in that order
OneRowPerEntry(entries, hashes, value) ==
    [header |-> ResultHeader(<<"f">>),
     records |-> [i \in 1..Len(entries) |-> <<entries[i], hashes[i], value>>]]

\* runs that vary the reference file and the commit hashes: every entry of
\* file2 differs from its entry of file1 on the field f
InitOutput ==
    /\ argv_given = 3
    /\ argv_fields = <<"f">>
    /\ \E E \in SUBSET EntryIndices :
          \E entries \in Orders(E) :
              \E hashes \in [1..Len(entries) -> Hashes] :
                  /\ file1 = OneRowPerEntry(entries, [i \in 1..Len(entries) |-> <<"a">>], "false")
                  /\ file2 = OneRowPerEntry(entries, hashes, "true")
    /\ \E n \in 0..MaxRefRows : test_file \in RefFiles(n)

DiffInit ==
    /\ Started
    /\ AggIdle
    /\ DiffFresh
    /\ \/ InitTooFewArguments
       \/ InitCompare
       \/ InitGroups
       \/ InitOutput

SpecDiff == DiffInit /\ [][DiffNext]_vars

----------------------------------------------------------------------------
(* Claims about the aggregator, checked under SpecAgg *)

AggFields == <<"correct", "correct_aligned", "correct_stripped">>

\* the distinct entry_index values of the rows that passed the filter
AggGroups == {all_rows[i]["entry_index"] : i \in 1..Len(all_rows)}

\* the groups in which at least one row has the field exactly "true"
AggGoodGroups(field) ==
    {e \in AggGroups :
        \E i \in 1..Len(all_rows) :
            all_rows[i]["entry_index"] = e /\ all_rows[i][field] = "true"}

\* the k-th accuracy of the data row, in millionths of a percent
EmittedMicro(k) ==
    stdout[2].cells[k].whole * 1000000 + stdout[2].cells[k].micro

AggReported == pc = "exit" /\ error = "none" /\ Len(stdout) = 2

(* C1: once the aggregator has reported on rows with at least one          *)
(* entry_index, each of the three accuracies it printed lies in [0, 100]   *)
(* and is the six-digit decimal nearest to 100 * (groups with a "true" in  *)
(* the field) / (distinct entry_index values); a group counts once however *)
(* many rows it has.                                                       *)
C1_AccuracyIsGroupRatio ==
    (AggReported /\ AggGroups # {}) =>
        \A k \in 1..3 :
            LET good == Cardinality(AggGoodGroups(AggFields[k]))
                total == Cardinality(AggGroups)
                diff == EmittedMicro(k) * total - 100 * 1000000 * good
            IN /\ EmittedMicro(k) >= 0
               /\ EmittedMicro(k) <= 100 * 1000000
               /\ 2 * diff <= total
               /\ 2 * diff >= 0 - total

\* a report on three rows in two groups, one of them correct: 50.000000
C1_Witness ==
    /\ AggReported
    /\ Len(all_rows) = 3
    /\ Cardinality(AggGroups) = 2
    /\ Cardinality(AggGoodGroups("correct")) = 1
    /\ stdout[2].cells[1] = [whole |-> 50, micro |-> 0]

\* no record of any file has a model that the pattern matches at its start
NoRowPassesFilter ==
    \A f \in 1..Len(argv_files) :
        \A i \in 1..Len(argv_files[f].records) :
            LET model == argv_files[f].records[i][2]
            IN \/ Len(model) < Len(argv_regex[1])
               \/ \E j \in 1..Len(argv_regex[1]) :
                    argv_regex[1][j] \notin {".", model[j]}

ZeroCell == [whole |-> 0, micro |-> 0]

(* C2: a run whose pattern compiles and in which no row passes the model   *)
(* filter ends with exit code 0, without a division error, and its data    *)
(* row is 0.000000,0.000000,0.000000.                                      *)
C2_ZeroGroupsReportZero ==
    ( /\ pc = "exit"
      /\ AggArgc >= 3
      /\ \A j \in 1..Len(argv_regex[1]) : argv_regex[1][j] # "("
      /\ NoRowPassesFilter ) =>
        /\ exit_code = 0
        /\ error = "none"
        /\ Len(stdout) = 2
        /\ stdout[2] = CsvLine(<<ZeroCell, ZeroCell, ZeroCell>>)

\* a finished run over three records, none of which passed the filter
C2_Witness ==
    /\ pc = "exit"
    /\ exit_code = 0
    /\ AggArgc >= 3
    /\ Len(argv_files) = 2
    /\ Len(argv_files[1].records) + Len(argv_files[2].records) = 3
    /\ NoRowPassesFilter
    /\ all_rows = <<>>

(* C7: a run with fewer than two arguments, or with a pattern that does    *)
(* not compile, exits with code 1, writes its message to standard error    *)
(* and writes nothing to standard output.                                  *)
C7_ErrorsGoToStderr ==
    ( /\ pc = "exit"
      /\ \/ AggArgc < 3
         \/ \E j \in 1..Len(argv_regex[1]) : argv_regex[1][j] = "(" ) =>
        /\ exit_code = 1
        /\ stderr # <<>>
        /\ stdout = <<>>

----------------------------------------------------------------------------
(* Claims about the differ, checked under SpecDiff *)

\* the cell of the i-th record of a file in the given column
Cell(file, i, column) == file.records[i][ColumnIndex(file.header, column)]

\* the records of a file that carry the entry index, as their positions
RecordsOf(file, e) ==
    {i \in 1..Len(file.records) : Cell(file, i, "entry_index") = e}

FirstRecordOf(file, e) ==
    CHOOSE i \in RecordsOf(file, e) : \A j \in RecordsOf(file, e) : i <= j

InputEntries ==
    {Cell(file1, i, "entry_index") : i \in 1..Len(file1.records)} \cup
    {Cell(file2, i, "entry_index") : i \in 1..Len(file2.records)}

\* find_differing_rows recorded a row of the entry
Reported(e) ==
    \E i \in 1..Len(differing_rows) : differing_rows[i]["entry_index"] = e

\* every record of the entry has the value in every requested field
AllCellsAre(file, e, value) ==
    \A i \in RecordsOf(file, e) :
        \A k \in 1..Len(argv_fields) :
            /\ argv_fields[k] \in Range(file.header)
            /\ Cell(file, i, argv_fields[k]) = value

\* the first records of the entry are all-"false" in file1, all-"true" in file2
FirstPairDiffers(e) ==
    \A k \in 1..Len(argv_fields) :
        /\ argv_fields[k] \in Range(file1.header)
        /\ argv_fields[k] \in Range(file2.header)
        /\ Cell(file1, FirstRecordOf(file1, e), argv_fields[k]) = "false"
        /\ Cell(file2, FirstRecordOf(file2, e), argv_fields[k]) = "true"

(* C4: no row is recorded for an entry_index for which file1 and file2     *)
(* hold different numbers of rows, the index being in one file only        *)
(* included, whatever the values of the fields.                            *)
C4_UnequalGroupsNeverReported ==
    \A e \in InputEntries :
        Cardinality(RecordsOf(file1, e)) # Cardinality(RecordsOf(file2, e))
            => ~Reported(e)

\* find_differing_rows returned; an entry with two all-"false" rows in
\* file1 and one all-"true" row in file2 was looked at and not recorded
C4_Witness ==
    /\ pc = "output"
    /\ \E e \in examined :
          /\ Cardinality(RecordsOf(file1, e)) = 2
          /\ Cardinality(RecordsOf(file2, e)) = 1
          /\ AllCellsAre(file1, e, "false")
          /\ AllCellsAre(file2, e, "true")
          /\ ~Reported(e)

(* C5: a row is recorded for an entry only if the first requested field    *)
(* is "false" in the first row of the entry in file1 and "true" in the     *)
(* first row of the entry in file2.                                        *)
C5_ReportedOnlyIfFalseThenTrue ==
    \A e \in InputEntries :
        Reported(e) =>
            /\ RecordsOf(file1, e) # {}
            /\ RecordsOf(file2, e) # {}
            /\ argv_fields[1] \in Range(file1.header)
            /\ argv_fields[1] \in Range(file2.header)
            /\ Cell(file1, FirstRecordOf(file1, e), argv_fields[1]) = "false"
            /\ Cell(file2, FirstRecordOf(file2, e), argv_fields[1]) = "true"

\* two fields are requested and a row is recorded for an entry that has
\* two rows in each file
C5_Witness ==
    /\ pc = "output"
    /\ Len(argv_fields) = 2
    /\ \E e \in examined :
          /\ Reported(e)
          /\ Cardinality(RecordsOf(file1, e)) = 2
          /\ Cardinality(RecordsOf(file2, e)) = 2

\* a requested field is a column of a file that has a record
InSomeRow(field) ==
    \/ file1.records # <<>> /\ field \in Range(file1.header)
    \/ file2.records # <<>> /\ field \in Range(file2.header)

(* C8: with four arguments or more, if a requested field is a column of    *)
(* no row of file1 or file2 the run ends with exit code 1 before any group *)
(* is compared and before any CSV line is written; if every requested      *)
(* field is a column of some row, the run does not end that way.           *)
C8_MissingFieldExit ==
    (pc # "start" /\ DiffArgc >= 5) =>
        IF \E k \in 1..Len(argv_fields) : ~InSomeRow(argv_fields[k])
        THEN /\ pc = "exit"
             /\ exit_code = 1
             /\ error = "missing"
             /\ examined = {}
             /\ differing_rows = <<>>
             /\ \A i \in 1..Len(stdout) : stdout[i].kind # "csv"
        ELSE error # "missing"

\* the run ended on a field that is a column of file1, which has no record
C8_Witness ==
    /\ pc = "exit"
    /\ error = "missing"
    /\ Len(argv_fields) = 2
    /\ InSomeRow(argv_fields[1])
    /\ argv_fields[2] \in Range(file1.header)
    /\ file1.records = <<>>
    /\ file2.records # <<>>

\* some record of the entry differs from the first one on a requested field
Inconsistent(file, e) ==
    \E i \in RecordsOf(file, e) :
        \E k \in 1..Len(argv_fields) :
            /\ argv_fields[k] \in Range(file.header)
            /\ Cell(file, i, argv_fields[k]) #
                    Cell(file, FirstRecordOf(file, e), argv_fields[k])

(* C9: no row is recorded for an entry whose groups have the same size     *)
(* when, in one of them, some row differs from the first row of the group  *)
(* on a requested field, the first rows being all-"false" in file1 and     *)
(* all-"true" in file2 or not.                                             *)
C9_InconsistentGroupNeverReported ==
    \A e \in InputEntries :
        ( /\ Cardinality(RecordsOf(file1, e)) = Cardinality(RecordsOf(file2, e))
          /\ Inconsistent(file1, e) \/ Inconsistent(file2, e) )
            => ~Reported(e)

\* an entry with two rows in each file, the first rows all-"false" and
\* all-"true" on two fields, the second row of file2 different from the
\* first, was looked at and not recorded
C9_Witness ==
    /\ pc = "output"
    /\ Len(argv_fields) = 2
    /\ \E e \in examined :
          /\ Cardinality(RecordsOf(file1, e)) = 2
          /\ Cardinality(RecordsOf(file2, e)) = 2
          /\ FirstPairDiffers(e)
          /\ ~Inconsistent(file1, e)
          /\ Inconsistent(file2, e)
          /\ ~Reported(e)

(* C10: when every requested field is a column of some row of file1 or     *)
(* file2, find_differing_rows ends without a failed lookup of a requested  *)
(* field.                                                                  *)
C10_CheckedFieldsNeverFail ==
    (\A k \in 1..Len(argv_fields) : InSomeRow(argv_fields[k]))
        => error # "KeyError"

\* the CSV lines on standard output after the header
DataLines == IF stdout = <<>> THEN 0 ELSE Len(stdout) - 1

(* C3: the integer written to standard error is the number of data rows    *)
(* written to standard output, reference rows and differing rows written   *)
(* as themselves alike.                                                    *)
C3_CountIsEmittedRows ==
    (pc = "exit" /\ exit_code = 0) =>
        stderr[Len(stderr)] = [kind |-> "count", n |-> DataLines]

\* the reference rows whose Description holds the commit hash, as positions
Matching(commit) ==
    {i \in 1..Len(test_file.records) :
        \E start \in 0..(Len(Cell(test_file, i, "Description")) - Len(commit)) :
            \A j \in 1..Len(commit) :
                Cell(test_file, i, "Description")[start + j] = commit[j]}

\* the line the claim has for a differing row: the first matching reference
\* record, or the row under the reference header, blank where it has no cell
ExpectedLine(row) ==
    LET matching == Matching(row["patch_commit_hash"])
    IN IF matching # {}
       THEN CsvLine(test_file.records[
                CHOOSE i \in matching : \A j \in matching : i <= j])
       ELSE CsvLine([c \in 1..Len(test_file.header) |->
                IF test_file.header[c] \in DOMAIN row
                THEN row[test_file.header[c]] ELSE ""])

(* C6: a run that collected differing rows, with a reference file that    *)
(* has a first row, writes after the header one line per differing row, in *)
(* order: the first reference row whose Description holds the row's        *)
(* patch_commit_hash, or, when there is none, the differing row under the  *)
(* reference header with the columns it lacks left blank.                  *)
C6_OneLinePerDifferingRow ==
    (pc = "exit" /\ differing_rows # <<>> /\ test_file.records # <<>>) =>
        /\ Len(stdout) = 1 + Len(differing_rows)
        /\ \A i \in 1..Len(differing_rows) :
              stdout[i + 1] = ExpectedLine(differing_rows[i])

============================================================================
